---- MODULE Spec2Model ----
(***************************************************************************)
(* examples/har_dump.py: the inline script that records flows as a HAR      *)
(* document.  The module-level dictionary HAR, the three hooks the host     *)
(* calls (start, response, done) and the formatting helpers                 *)
(* (format_cookies, name_value, format_datetime).                           *)
(*                                                                         *)
(* Time stamps are floating-point seconds in the program.  Here a time      *)
(* stamp is an integer number of ticks, TicksPerMs ticks to the             *)
(* millisecond, so that int(1000 * v) truncates a fraction.                 *)
(***************************************************************************)
EXTENDS Integers, Sequences, FiniteSets, TLC

VARIABLES
    argv,    \* sys.argv, fixed for a run
    py3,     \* the interpreter running the script: TRUE for Python 3 (str is text)
    fs0,     \* the file system before the script ran
    fs,      \* the file system: path -> [exists, data], data the chunks written
    HAR,     \* the module-level dictionary HAR (line 18)
    log,     \* what mitmproxy.ctx.log has been handed, in order
    io,      \* open() and write() calls made so far, in order
    hist,    \* the flows response() was called with since the last successful start()
    pre,     \* the state when the last hook call began: [HAR, fs, io, log, op]
    op,      \* the last call: [fn, arg]
    ret,     \* how the last call ended: [raised, value]
    ncalls   \* hook calls made so far

vars == <<argv, py3, fs0, fs, HAR, log, io, hist, pre, op, ret, ncalls>>

(***************************************************************************)
(* Bounds of the model.                                                    *)
(***************************************************************************)
MaxCalls == 4
MaxTS == 4
TicksPerMs == 2
MaxCookies == 1
MaxPairs == 2

(***************************************************************************)
(* Python values that two branches of the code return in different types.  *)
(***************************************************************************)
PyNone == [type |-> "none", str |-> "", list |-> <<>>]
PyStr(s) == [type |-> "str", str |-> s, list |-> <<>>]
PyList(l) == [type |-> "list", str |-> "", list |-> l]

Return(v) == [raised |-> "none", value |-> v]
Raise(e) == [raised |-> e, value |-> PyNone]

EmptyDict == [k \in {} |-> TRUE]

\* Update as dict.setdefault would do it: a key already there keeps its value
SetDefault(d, k, v) == [x \in DOMAIN d \cup {k} |-> IF x \in DOMAIN d THEN d[x] ELSE v]

\* dict.update({k: v})
Update(d, k, v) == [x \in DOMAIN d \cup {k} |-> IF x = k THEN v ELSE d[x]]

\* what a hook call finds when it begins
Snapshot == [HAR |-> HAR, fs |-> fs, io |-> io, log |-> log, op |-> op]

(***************************************************************************)
(* start()                                                                 *)
(***************************************************************************)
\* ArgcOk that only asks for a destination: extra arguments pass
ArgcAtLeastTwo(av) == Len(av) >= 2

ArgcOk(av) == Len(av) = 2

\* "mitmproxy version %s" % version.MITMPROXY
CreatorComment == <<"mitmproxy version ", "version.MITMPROXY">>

NewLog ==
    [version |-> "1.2",
     creator |-> [name |-> "mitmproxy har_dump",
                  version |-> "0.1",
                  comment |-> CreatorComment],
     entries |-> <<>>]

Start ==
    /\ ncalls < MaxCalls
    /\ ncalls' = ncalls + 1
    /\ op' = [fn |-> "start", arg |-> PyNone]
    /\ pre' = Snapshot
    /\ IF ~ArgcOk(argv)
       THEN /\ ret' = Raise("ValueError")
            /\ UNCHANGED <<HAR, hist>>
       ELSE /\ HAR' = Update(HAR, "log", NewLog)
            /\ hist' = <<>>
            /\ ret' = Return(PyNone)
    /\ UNCHANGED <<argv, py3, fs0, fs, log, io>>

(***************************************************************************)
(* The helpers of response().                                              *)
(***************************************************************************)
\* int(x / y) for integers: Python's int() truncates towards zero
TruncDiv(x, y) == IF x >= 0 THEN x \div y ELSE -((-x) \div y)

\* int(1000 * v), v a number of seconds held as ticks (1000 * TicksPerMs to the second)
Ms(v) == TruncDiv(1000 * v, 1000 * TicksPerMs)

TimingsRaw(flow) ==
    [send |-> flow.request.timestamp_end - flow.request.timestamp_start,
     receive |-> flow.response.timestamp_end - flow.response.timestamp_start,
     wait |-> flow.response.timestamp_start - flow.request.timestamp_end]

Timings(flow) == [k \in DOMAIN TimingsRaw(flow) |-> Ms(TimingsRaw(flow)[k])]

\* FullTime without the filter: the plain sum of the three timings
FullTimeAll(timings) == timings.send + timings.receive + timings.wait

\* sum(v for v in timings.values() if v > -1)
FullTime(timings) ==
    LET Kept(v) == IF v > -1 THEN v ELSE 0
    IN  Kept(timings.send) + Kept(timings.receive) + Kept(timings.wait)

\* dt.replace(tzinfo=pytz.timezone("UTC")).isoformat()
FormatDatetime(dt) == [isoformat |-> dt, utcoffset |-> "+00:00"]

\* the dictionary one pass of format_cookies' loop has built when it reaches line 152
CookieHar(c) ==
    LET name == c[1]
        value == c[2]
        attrs == c[3]
        copied == {"path", "domain", "comment"} \cap DOMAIN attrs
    IN  [key \in {"name", "value"} \cup copied \cup {"httpOnly", "secure"} |->
            CASE key = "name" -> name
              [] key = "value" -> value
              [] key \in {"httpOnly", "secure"} -> key \in DOMAIN attrs
              [] OTHER -> attrs[key]]

\* line 152, cookies.get_expiration_ts: inside format_cookies the name `cookies`
\* is the parameter (a list, or a generator), which has no such attribute
GetExpirationTsLookup(cookies) == Raise("AttributeError")

RECURSIVE FormatCookiesFrom(_, _, _)
FormatCookiesFrom(cookies, i, cookie_list) ==
    IF i > Len(cookies)
    THEN Return(PyList(cookie_list))
    ELSE LET cookie_har == CookieHar(cookies[i])
             expire_ts == GetExpirationTsLookup(cookies)
         IN  IF expire_ts.raised # "none"
             THEN expire_ts
             ELSE FormatCookiesFrom(cookies, i + 1, Append(cookie_list, cookie_har))

\* FormatCookies with the expiry lookup made before the loop: it fails on an empty list too
FormatCookiesLookupFirst(cookies) ==
    LET expire_ts == GetExpirationTsLookup(cookies)
    IN  IF expire_ts.raised # "none"
        THEN expire_ts
        ELSE FormatCookiesFrom(cookies, 1, <<>>)

FormatCookies(cookies) == FormatCookiesFrom(cookies, 1, <<>>)

\* netlib.http.cookies.group_cookies: (name, value) pairs to (name, value, attrs)
\* triples, a pair named after a cookie attribute joining the cookie before it
CookieParams == {"path", "domain", "comment", "httpOnly", "secure", "expires"}

RECURSIVE GroupCookiesFrom(_, _, _)
GroupCookiesFrom(pairs, i, cookie_list) ==
    IF i > Len(pairs)
    THEN cookie_list
    ELSE LET k == pairs[i][1]
             v == pairs[i][2]
             n == Len(cookie_list)
         IN  IF n > 0 /\ k \in CookieParams
             THEN GroupCookiesFrom(pairs, i + 1,
                      [cookie_list EXCEPT ![n] =
                          <<@[1], @[2], Update(@[3], k, v)>>])
             ELSE GroupCookiesFrom(pairs, i + 1,
                      Append(cookie_list, <<k, v, EmptyDict>>))

GroupCookies(pairs) == GroupCookiesFrom(pairs, 1, <<>>)

FormatRequestCookies(fields) == FormatCookies(GroupCookies(fields))

FormatResponseCookies(fields) ==
    FormatCookies([i \in 1..Len(fields) |->
                      <<fields[i][1], fields[i][2].value, fields[i][2].attrs>>])

\* The objects name_value is handed: one with .fields (Headers, a query view),
\* a mapping with .items() (a dict), or None.
Fields(pairs) == [kind |-> "fields", pairs |-> pairs]
Mapping(pairs) == [kind |-> "mapping", pairs |-> pairs]
NoneObj == [kind |-> "none", pairs |-> <<>>]

\* the truth value of obj in `obj or {}`
Truthy(obj) == obj.kind # "none" /\ Len(obj.pairs) > 0

OrEmptyDict(obj) == IF Truthy(obj) THEN obj ELSE Mapping(<<>>)

\* NameValue that returns the empty list when there is no item
NameValueAlwaysList(obj) ==
    LET items == IF obj.kind \in {"fields", "mapping"} THEN obj.pairs ELSE <<>>
    IN  PyList([i \in 1..Len(items) |->
                   [name |-> items[i][1], value |-> items[i][2]]])

NameValue(obj) ==
    LET items == IF obj.kind = "fields" THEN obj.pairs
                 ELSE IF obj.kind = "mapping" THEN obj.pairs
                 ELSE <<>>
    IN  IF Len(items) > 0
        THEN PyList([i \in 1..Len(items) |->
                        [name |-> items[i][1], value |-> items[i][2]]])
        ELSE PyStr("")

\* headers.get(name, default)
RECURSIVE HeadersGetFrom(_, _, _, _)
HeadersGetFrom(headers, i, name, default) ==
    IF i > Len(headers.pairs) THEN default
    ELSE IF headers.pairs[i][1] = name THEN headers.pairs[i][2]
    ELSE HeadersGetFrom(headers, i + 1, name, default)

HeadersGet(headers, name, default) == HeadersGetFrom(headers, 1, name, default)

(***************************************************************************)
(* response(flow)                                                          *)
(***************************************************************************)
\* the entry lines 80-110 append, given what the two cookie formatters returned;
\* a body is held as its length, and headersSize, the length of the host's own
\* rendering of a header object, is not held
Entry(flow, request_cookies, response_cookies) ==
    [startedDateTime |-> FormatDatetime(flow.request.timestamp_start),
     time |-> FullTime(Timings(flow)),
     request |->
        [method |-> flow.request.method,
         url |-> flow.request.url,
         httpVersion |-> flow.request.http_version,
         cookies |-> request_cookies,
         headers |-> NameValue(flow.request.headers),
         queryString |-> NameValue(OrEmptyDict(flow.request.query)),
         bodySize |-> flow.request.content_len],
     response |->
        [status |-> flow.response.status_code,
         statusText |-> flow.response.reason,
         httpVersion |-> flow.response.http_version,
         cookies |-> response_cookies,
         headers |-> NameValue(flow.response.headers),
         content |->
            [size |-> flow.response.content_len,
             compression |-> flow.response.content_len - flow.response.content_len,
             mimeType |-> HeadersGet(flow.response.headers, "Content-Type", "")],
         redirectURL |-> HeadersGet(flow.response.headers, "Location", ""),
         bodySize |-> flow.response.content_len],
     cache |-> EmptyDict,
     timings |-> Timings(flow)]

\* HAR["log"]["entries"].append(...)
AppendEntry(har, entry) == [har EXCEPT !["log"].entries = Append(@, entry)]

Response(flow) ==
    /\ ncalls < MaxCalls
    /\ ncalls' = ncalls + 1
    /\ op' = [fn |-> "response", arg |-> flow]
    /\ pre' = Snapshot
    /\ IF "log" \notin DOMAIN HAR
       THEN /\ ret' = Raise("KeyError")
            /\ UNCHANGED <<HAR, hist>>
       ELSE /\ hist' = Append(hist, flow)
            /\ LET request_cookies == FormatRequestCookies(flow.request.cookies)
                   response_cookies == FormatResponseCookies(flow.response.cookies)
               IN  IF request_cookies.raised # "none"
                   THEN ret' = request_cookies /\ UNCHANGED HAR
                   ELSE IF response_cookies.raised # "none"
                   THEN ret' = response_cookies /\ UNCHANGED HAR
                   ELSE /\ HAR' = AppendEntry(HAR, Entry(flow, request_cookies.value,
                                                         response_cookies.value))
                        /\ ret' = Return(PyNone)
    /\ UNCHANGED <<argv, py3, fs0, fs, log, io>>

(***************************************************************************)
(* done()                                                                  *)
(***************************************************************************)
\* IsStdout that never recognises the sentinel: "-" is taken for a file name
IsStdoutNever(dump_file) == FALSE

IsStdout(dump_file) == dump_file = "-"

\* pprint.pformat(HAR) and json.dumps(HAR, indent=2): the text of a document
Pformat(har) == [format |-> "pformat", indent |-> 1, doc |-> har]
JsonDumps(har) == [format |-> "json", indent |-> 2, doc |-> har]

\* open(path, "wb"): the file exists and is empty
OpenWb(files, path) == [files EXCEPT ![path] = [exists |-> TRUE, data |-> <<>>]]

\* f.write(text)
Write(files, path, text) == [files EXCEPT ![path].data = Append(@, text)]

\* Done that empties the entry list once the document is out
DoneThenReset ==
    /\ ncalls < MaxCalls
    /\ ncalls' = ncalls + 1
    /\ op' = [fn |-> "done", arg |-> PyNone]
    /\ pre' = Snapshot
    /\ IF Len(argv) < 2
       THEN /\ ret' = Raise("IndexError")
            /\ UNCHANGED <<fs, log, io, HAR>>
       ELSE /\ HAR' = IF "log" \in DOMAIN HAR
                      THEN [HAR EXCEPT !["log"].entries = <<>>]
                      ELSE HAR
            /\ IF IsStdout(argv[2])
               THEN /\ log' = Append(log, Pformat(HAR))
                    /\ ret' = Return(PyNone)
                    /\ UNCHANGED <<fs, io>>
               ELSE IF py3
               THEN /\ fs' = OpenWb(fs, argv[2])
                    /\ io' = Append(io, [call |-> "open", path |-> argv[2]])
                    /\ ret' = Raise("TypeError")
                    /\ UNCHANGED log
               ELSE /\ fs' = Write(OpenWb(fs, argv[2]), argv[2], JsonDumps(HAR))
                    /\ io' = io \o <<[call |-> "open", path |-> argv[2]],
                                     [call |-> "write", path |-> argv[2]]>>
                    /\ ret' = Return(PyNone)
                    /\ UNCHANGED log
    /\ UNCHANGED <<argv, py3, fs0, hist>>

Done ==
    /\ ncalls < MaxCalls
    /\ ncalls' = ncalls + 1
    /\ op' = [fn |-> "done", arg |-> PyNone]
    /\ pre' = Snapshot
    /\ IF Len(argv) < 2
       THEN /\ ret' = Raise("IndexError")
            /\ UNCHANGED <<fs, log, io>>
       ELSE LET dump_file == argv[2]
            IN  IF IsStdout(dump_file)
                THEN /\ log' = Append(log, Pformat(HAR))
                     /\ ret' = Return(PyNone)
                     /\ UNCHANGED <<fs, io>>
                ELSE IF py3
                THEN \* line 123 has truncated the file; opened "wb" it takes
                     \* bytes, and line 124 hands it the str json.dumps returns
                     /\ fs' = OpenWb(fs, dump_file)
                     /\ io' = Append(io, [call |-> "open", path |-> dump_file])
                     /\ ret' = Raise("TypeError")
                     /\ UNCHANGED log
                ELSE /\ fs' = Write(OpenWb(fs, dump_file), dump_file, JsonDumps(HAR))
                     /\ io' = io \o <<[call |-> "open", path |-> dump_file],
                                      [call |-> "write", path |-> dump_file]>>
                     /\ ret' = Return(PyNone)
                     /\ UNCHANGED log
    /\ UNCHANGED <<argv, py3, fs0, HAR, hist>>

(***************************************************************************)
(* The inputs: command lines, file systems, flows, helper arguments.       *)
(***************************************************************************)
SeqsUpTo(S, n) == UNION {[1..m -> S] : m \in 0..n}

Paths == {"-", "out.har"}

\* the script's name, then up to two arguments
Argvs == {<<"har_dump.py">> \o a : a \in SeqsUpTo(Paths, 2)}

OldFile == [exists |-> TRUE, data |-> <<[format |-> "other", indent |-> 0, doc |-> EmptyDict]>>]
NoFile == [exists |-> FALSE, data |-> <<>>]

FileSystems == {[p \in Paths |-> OldFile], [p \in Paths |-> NoFile]}

TS == 0..MaxTS

Shapes == {"bare", "full", "reqcookie", "respcookie"}

AttrValue(k) == CASE k = "path" -> "/" [] k = "domain" -> "h" [] OTHER -> ""

PathSecure == [k \in {"path", "secure"} |-> AttrValue(k)]

MkFlow(t, shape) ==
    [request |->
        [timestamp_start |-> t[1],
         timestamp_end |-> t[2],
         method |-> "GET",
         url |-> "http://h/",
         http_version |-> "HTTP/1.1",
         cookies |-> IF shape = "reqcookie" THEN <<<<"sid", "1">>>> ELSE <<>>,
         headers |-> CASE shape = "full" -> Fields(<<<<"Host", "h">>, <<"Accept", "*">>>>)
                       [] shape = "reqcookie" -> Fields(<<<<"Cookie", "sid=1">>>>)
                       [] OTHER -> Fields(<<>>),
         query |-> IF shape = "full" THEN Fields(<<<<"q", "1">>, <<"p", "2">>>>) ELSE NoneObj,
         content_len |-> 0],
     response |->
        [timestamp_start |-> t[3],
         timestamp_end |-> t[4],
         status_code |-> 200,
         reason |-> "OK",
         http_version |-> "HTTP/1.1",
         cookies |-> IF shape = "respcookie"
                     THEN <<<<"sid", [value |-> "1", attrs |-> PathSecure]>>>>
                     ELSE <<>>,
         headers |-> CASE shape = "full" -> Fields(<<<<"Content-Type", "text/html">>,
                                                     <<"Location", "/x">>>>)
                       [] shape = "respcookie" -> Fields(<<<<"Set-Cookie", "sid=1">>>>)
                       [] OTHER -> Fields(<<>>),
         content_len |-> IF shape = "full" THEN 1 ELSE 0]]

\* every order of the four time stamps, every shape
Flows == {MkFlow(t, shape) : t \in [1..4 -> TS], shape \in Shapes}

\* one flow of each shape, its time stamps in order
HookFlows == {MkFlow(<<0, 1, 1, MaxTS>>, shape) : shape \in Shapes}

AttrMaps == {[k \in S |-> AttrValue(k)] : S \in SUBSET CookieParams}

CookieLists == SeqsUpTo({<<"sid", "1", attrs>> : attrs \in AttrMaps}, MaxCookies)

PairLists == SeqsUpTo({"a", "b"} \X {"1", "2"}, MaxPairs)

UniqueKeys(pairs) == \A i, j \in 1..Len(pairs) : i # j => pairs[i][1] # pairs[j][1]

Objects ==
    {NoneObj} \cup {Fields(p) : p \in PairLists}
              \cup {Mapping(p) : p \in {q \in PairLists : UniqueKeys(q)}}

(***************************************************************************)
(* Direct calls of the helpers.                                            *)
(***************************************************************************)
CallFormatCookies(cookies) ==
    /\ op' = [fn |-> "format_cookies", arg |-> cookies]
    /\ ret' = FormatCookies(cookies)
    /\ UNCHANGED <<argv, py3, fs0, fs, HAR, log, io, hist, pre, ncalls>>

CallNameValue(obj) ==
    /\ op' = [fn |-> "name_value", arg |-> obj]
    /\ ret' = Return(NameValue(obj))
    /\ UNCHANGED <<argv, py3, fs0, fs, HAR, log, io, hist, pre, ncalls>>

(***************************************************************************)
(* Specifications.                                                         *)
(***************************************************************************)
Init ==
    /\ argv \in Argvs
    /\ py3 \in BOOLEAN
    /\ fs0 \in FileSystems
    /\ fs = fs0
    /\ HAR = EmptyDict
    /\ log = <<>>
    /\ io = <<>>
    /\ hist = <<>>
    /\ op = [fn |-> "import", arg |-> PyNone]
    /\ pre = [HAR |-> EmptyDict, fs |-> fs0, io |-> <<>>, log |-> <<>>, op |-> op]
    /\ ret = Return(PyNone)
    /\ ncalls = 0

\* the hooks, called in any order
Next ==
    \/ Start
    \/ \E flow \in HookFlows : Response(flow)
    \/ Done

Spec == Init /\ [][Next]_vars

\* start(), and straight after the first, successful one, response() with any flow
NextEntry ==
    \/ Start
    \/ /\ ncalls = 1
       /\ "log" \in DOMAIN HAR
       /\ \E flow \in Flows : Response(flow)

SpecEntry == Init /\ [][NextEntry]_vars

\* the helpers, called directly: one call in a run, on the module as imported
NextFn ==
    \/ /\ op.fn = "import"
       /\ \E cookies \in CookieLists : CallFormatCookies(cookies)
    \/ /\ op.fn = "import"
       /\ \E obj \in Objects : CallNameValue(obj)

SpecFn == Init /\ [][NextFn]_vars

(***************************************************************************)
(* The claims.                                                             *)
(***************************************************************************)
Started == "log" \in DOMAIN HAR
Entries == HAR["log"].entries
LastEntry == Entries[Len(Entries)]
FileMode == Len(argv) >= 2 /\ argv[2] # "-"
ConsoleMode == Len(argv) >= 2 /\ argv[2] = "-"
Returned == ret.raised = "none"

\* C1: after a successful start(), each response(flow) appends exactly one
\* entry and leaves the earlier ones alone, so the list has one entry per
\* response call since start, the i-th built from the i-th flow.
C1_OneEntryPerResponse ==
    /\ (op.fn = "response" /\ "log" \in DOMAIN pre.HAR) =>
          /\ Len(Entries) = Len(pre.HAR["log"].entries) + 1
          /\ SubSeq(Entries, 1, Len(Entries) - 1) = pre.HAR["log"].entries
    /\ Started =>
          /\ Len(Entries) = Len(hist)
          /\ \A i \in 1..Len(Entries) :
                /\ Entries[i].timings = Timings(hist[i])
                /\ Entries[i].request.headers = NameValue(hist[i].request.headers)
                /\ Entries[i].response.headers = NameValue(hist[i].response.headers)

\* C2: start() with an argument count other than one destination raises and
\* leaves the document exactly as it was: no "log" key is added or replaced.
C2_BadArgcNoInit ==
    (op.fn = "start" /\ Len(argv) # 2) =>
        /\ ret.raised = "ValueError"
        /\ HAR = pre.HAR

C2_Witness ==
    /\ op.fn = "start"
    /\ Len(argv) = 3
    /\ ret.raised = "ValueError"
    /\ pre.op.fn = "start"

\* C3: an entry's "time" is send + receive + wait when the three millisecond
\* timings are non-negative; a timing of exactly -1 adds nothing to "time"
\* and is still reported as -1 in "timings".
C3_TimeIsSum ==
    (op.fn = "response" /\ Returned) =>
        LET t == LastEntry.timings
            raw == TimingsRaw(op.arg)
            Counted(v) == IF v = -1 THEN 0 ELSE v
        IN  /\ t.send = TruncDiv(raw.send, TicksPerMs)
            /\ t.receive = TruncDiv(raw.receive, TicksPerMs)
            /\ t.wait = TruncDiv(raw.wait, TicksPerMs)
            /\ (t.send >= 0 /\ t.receive >= 0 /\ t.wait >= 0) =>
                  LastEntry.time = t.send + t.receive + t.wait
            /\ (t.send >= -1 /\ t.receive >= -1 /\ t.wait >= -1) =>
                  LastEntry.time = Counted(t.send) + Counted(t.receive) + Counted(t.wait)

C3_Witness ==
    /\ op.fn = "response"
    /\ Returned
    /\ Started
    /\ Len(Entries) = 1
    /\ LastEntry.timings.send = -1
    /\ LastEntry.timings.wait > 0
    /\ LastEntry.time = LastEntry.timings.wait

\* C4: start() and response() write nothing; done() in file mode makes one
\* write that leaves the destination holding exactly the serialization of
\* the whole document, with every entry appended since start.
C4_DoneWritesWholeDocument ==
    /\ op.fn \in {"start", "response"} => (fs = pre.fs /\ io = pre.io)
    /\ (op.fn = "done" /\ FileMode /\ Started) =>
          /\ Returned
          /\ Entries = pre.HAR["log"].entries
          /\ fs[argv[2]] = [exists |-> TRUE, data |-> <<JsonDumps(HAR)>>]
          /\ \A p \in Paths \ {argv[2]} : fs[p] = pre.fs[p]
          /\ io = pre.io \o <<[call |-> "open", path |-> argv[2]],
                              [call |-> "write", path |-> argv[2]]>>

\* The same statement where the interpreter is Python 2, whose str is bytes.
C4_OnPython2 == ~py3 => C4_DoneWritesWholeDocument

\* C5: with the destination "-", no file is ever opened or written, whatever
\* the hooks called, and done() hands the document to the host's log.
C5_StdoutTouchesNoFile ==
    ConsoleMode =>
        /\ fs = fs0
        /\ io = <<>>
        /\ op.fn = "done" =>
              /\ Returned
              /\ log = Append(pre.log, Pformat(HAR))

C5_Witness ==
    /\ ConsoleMode
    /\ op.fn = "done"
    /\ Started
    /\ Len(Entries) > 0
    /\ Len(log) = 1
    /\ fs0["-"].exists

\* C6: format_cookies, for a cookie whose attributes are exactly path and
\* secure, returns a record with exactly the keys name, value, path,
\* httpOnly and secure, httpOnly false and secure true.
C6_PathSecureCookie ==
    (op.fn = "format_cookies" /\ Len(op.arg) > 0) =>
        \A i \in 1..Len(op.arg) :
            DOMAIN op.arg[i][3] = {"path", "secure"} =>
                /\ Returned
                /\ ret.value.type = "list"
                /\ Len(ret.value.list) = Len(op.arg)
                /\ DOMAIN ret.value.list[i] = {"name", "value", "path", "httpOnly", "secure"}
                /\ ret.value.list[i]["name"] = op.arg[i][1]
                /\ ret.value.list[i]["value"] = op.arg[i][2]
                /\ ret.value.list[i]["path"] = op.arg[i][3]["path"]
                /\ ret.value.list[i]["httpOnly"] = FALSE
                /\ ret.value.list[i]["secure"] = TRUE

\* C7: for a flow with no query string, no headers and no cookies, response()
\* returns without raising and appends one entry whose cookies are the empty
\* list and whose headers and queryString are there, with an empty value.
NothingOptional(flow) ==
    /\ ~Truthy(flow.request.query)
    /\ Len(flow.request.headers.pairs) = 0
    /\ Len(flow.response.headers.pairs) = 0
    /\ Len(flow.request.cookies) = 0
    /\ Len(flow.response.cookies) = 0

IsEmptyValue(v) ==
    \/ v.type = "str" /\ v.str = ""
    \/ v.type = "list" /\ v.list = <<>>

C7_MissingOptionalData ==
    (op.fn = "response" /\ "log" \in DOMAIN pre.HAR /\ NothingOptional(op.arg)) =>
        /\ Returned
        /\ Len(Entries) = Len(pre.HAR["log"].entries) + 1
        /\ LastEntry.request.cookies = PyList(<<>>)
        /\ LastEntry.response.cookies = PyList(<<>>)
        /\ {"headers", "queryString", "cookies"} \subseteq DOMAIN LastEntry.request
        /\ {"headers", "cookies"} \subseteq DOMAIN LastEntry.response
        /\ IsEmptyValue(LastEntry.request.headers)
        /\ IsEmptyValue(LastEntry.request.queryString)
        /\ IsEmptyValue(LastEntry.response.headers)

C7_Witness ==
    /\ op.fn = "response"
    /\ NothingOptional(op.arg)
    /\ Returned
    /\ Started
    /\ Len(Entries) = 1
    /\ LastEntry.request.queryString = PyStr("")

\* C8: name_value gives the empty string, not an empty list, when there is no
\* item at all, and otherwise a list of {name, value} records as long as the
\* input and in its order.
C8_NameValue ==
    op.fn = "name_value" =>
        LET pairs == op.arg.pairs
        IN  IF Len(pairs) = 0
            THEN ret = Return(PyStr(""))
            ELSE /\ Returned
                 /\ ret.value.type = "list"
                 /\ Len(ret.value.list) = Len(pairs)
                 /\ \A i \in 1..Len(pairs) :
                       /\ DOMAIN ret.value.list[i] = {"name", "value"}
                       /\ ret.value.list[i].name = pairs[i][1]
                       /\ ret.value.list[i].value = pairs[i][2]

C8_Witness ==
    /\ op.fn = "name_value"
    /\ op.arg = Fields(<<<<"b", "1">>, <<"a", "2">>>>)
    /\ ret.value.type = "list"
    /\ ret.value.list[1].name = "b"
    /\ ret.value.list[2].name = "a"

\* C9: after a successful start(), whatever the document held, HAR["log"] has
\* version "1.2", the creator metadata and no entries: entries recorded
\* before a repeated start() are gone.
C9_StartResets ==
    (op.fn = "start" /\ Returned) =>
        /\ Started
        /\ HAR["log"].version = "1.2"
        /\ HAR["log"].creator.name = "mitmproxy har_dump"
        /\ HAR["log"].creator.version = "0.1"
        /\ HAR["log"].creator.comment = <<"mitmproxy version ", "version.MITMPROXY">>
        /\ HAR["log"].entries = <<>>

C9_Witness ==
    /\ op.fn = "start"
    /\ Returned
    /\ "log" \in DOMAIN pre.HAR
    /\ Len(pre.HAR["log"].entries) > 0
    /\ Entries = <<>>

\* C10: done() leaves the document as it found it, in console mode and in
\* file mode, so a done() straight after a done() emits the same document.
C10_DoneKeepsDocument ==
    op.fn = "done" =>
        /\ HAR = pre.HAR
        /\ (pre.op.fn = "done" /\ ConsoleMode) =>
              /\ Len(log) >= 2
              /\ log[Len(log)] = log[Len(log) - 1]
        /\ (pre.op.fn = "done" /\ FileMode) => fs = pre.fs

C10_Witness ==
    /\ op.fn = "done"
    /\ pre.op.fn = "done"
    /\ Returned
    /\ FileMode
    /\ Started
    /\ Len(Entries) > 0
    /\ fs[argv[2]].data = <<JsonDumps(HAR)>>

====
